---- MODULE Spec2Model ----
(***************************************************************************)
(* Story2Music: the pretraining entry point (pretrain.py, main) and the    *)
(* data utilities it uses (utils.py), as state machines.                   *)
(*                                                                         *)
(*   Spec         main(): corpus acquisition, corpus split, dataset build, *)
(*                resume, epoch loop and checkpointing, over successive    *)
(*                process runs that share one disk.                        *)
(*   SpecSplit    split_pretrain_data on a corpus of N paths.              *)
(*   SpecConvert  convert_to_midi on a sequence of token ids.              *)
(*   SpecBatch    the batch shift of the training step.                    *)
(***************************************************************************)
EXTENDS Integers, Sequences, FiniteSets, TLC

(***************************************************************************)
(* Program constants                                                       *)
(***************************************************************************)
num_epochs == 20
save_every == 2
batch_size == 16
resume_epoch_in_path == 4

(***************************************************************************)
(* Bounds of the model                                                     *)
(***************************************************************************)
\* process runs of main() that share the disk
MaxRuns == 2
\* visible accelerators: 0 .. MaxGpus
MaxGpus == 2
\* largest number of chunk files the external chunking routine leaves in
\* pretrain_data/dataset_train
MaxChunks == 17
\* epoch field of a checkpoint file that was put at the resume path by hand
MaxForeignEpoch == 19
\* largest corpus handed to split_pretrain_data in SpecSplit
MaxFiles == 25
\* tokenizer vocabulary ids are 0 .. VocabSize-1
VocabSize == 2
\* longest token id sequence given to convert_to_midi
MaxIds == 3
\* batch shapes of SpecBatch: 1..MaxBatch rows, 1..MaxSeqLen columns
MaxBatch == 2
MaxSeqLen == 3

VARIABLES
    \* ---- the disk, shared by all runs of main()
    midis,          \* midis/ : "absent", "partial" (extraction aborted), "complete"
    corpus,         \* number of *.mid files under midis/
    zip,            \* midis.zip exists
    subsets,        \* the pretrain_data/dataset_<name> directories written
    trainChunks,    \* number of *.mid chunk files under pretrain_data/dataset_train
    ckpt,           \* ckpt[e] : content of pretrain_checkpoints/decoder_epoch_<e>.pt
    trainerWrote,   \* the e for which a run of main() wrote decoder_epoch_<e>.pt
    \* ---- one run of main()
    run,            \* index of the current process run
    pc,             \* position of the run in main()
    crashSite,      \* the exception that ended the run, "" if none
    externalFailure,  \* an external call has failed, in this or an earlier run
    gpus,           \* torch.cuda.device_count()
    midisAtStart,   \* os.path.exists("midis") at line 32
    events,         \* acquisition and split calls made by this run, in order
    slices,         \* midi_paths_train, midi_paths_valid, midi_paths_test
    loaderLen,      \* len(data_loader)
    model,          \* the model: [wrapped, params]
    optimizer,      \* optimizer state
    start_epoch,
    epoch,
    batchIdx,       \* batches of the current epoch already processed
    step,
    loss,           \* the last batch loss of this run, -1 while unbound
    executed,       \* epochs whose body this run has begun, in order
    saved,          \* epochs for which this run wrote a checkpoint file
    ckptAtStart,    \* ckpt as it was when this run started
    lastEpochCkpt,  \* ckpt as it was when the current epoch began
    \* ---- split_pretrain_data alone (SpecSplit)
    sp_pc, sp_paths, sp_train, sp_valid, sp_test, sp_calls,
    \* ---- convert_to_midi (SpecConvert)
    cv_pc, cv_ids, cv_tokens, cv_tokfile, cv_midifile, cv_error,
    cv_tokfile0, cv_midifile0,   \* the two files as they were before the call
    \* ---- the batch shift (SpecBatch)
    bt_pc, bt_input_ids, bt_attention_mask, bt_decoder_input, bt_target,
    bt_pad_mask

diskVars  == <<midis, corpus, zip, subsets, trainChunks, ckpt, trainerWrote>>
runVars   == <<run, pc, crashSite, externalFailure, gpus, midisAtStart,
               events, slices,
               loaderLen, model, optimizer, start_epoch, epoch, batchIdx,
               step, loss, executed, saved, ckptAtStart, lastEpochCkpt>>
mainVars  == <<diskVars, runVars>>
splitVars == <<sp_pc, sp_paths, sp_train, sp_valid, sp_test, sp_calls>>
convVars  == <<cv_pc, cv_ids, cv_tokens, cv_tokfile, cv_midifile, cv_error,
               cv_tokfile0, cv_midifile0>>
batchVars == <<bt_pc, bt_input_ids, bt_attention_mask, bt_decoder_input,
               bt_target, bt_pad_mask>>
nonMain   == <<splitVars, convVars, batchVars>>
vars      == <<mainVars, splitVars, convVars, batchVars>>

(***************************************************************************)
(* Python helpers                                                          *)
(***************************************************************************)
Min(a, b) == IF a < b THEN a ELSE b
Max(a, b) == IF a > b THEN a ELSE b

\* s[a:b] for 0 <= a, 0 <= b
PySlice(s, a, b) == SubSeq(s, a + 1, Min(b, Len(s)))
\* s[a:]
PyFrom(s, a) == SubSeq(s, a + 1, Len(s))
\* s[:-1]
PyDropLast(s) == SubSeq(s, 1, Max(Len(s) - 1, 0))

\* the elements of a sequence
Range(s) == {s[i] : i \in 1..Len(s)}

(***************************************************************************)
(* pretrain.py: pieces of main()                                           *)
(***************************************************************************)
\* the checkpoint files' names: decoder_epoch_<e>.pt
CkptSlots == 0..(num_epochs - 1)

NoFile == <<>>
Exists(f) == Len(f) > 0
Content(f) == f[1]

CkptFields == {"epoch", "model_state_dict", "optimizer_state_dict", "loss"}

\* line 65: checkpoint_path = "pretrain_checkpoints/decoder_epoch_4.pt"
ResumePath == resume_epoch_in_path

\* line 120: f"pretrain_checkpoints/decoder_epoch_{epoch}.pt"
CheckpointPath(e) == e

\* the checkpoint cadence without its modulus
SaveDueEveryEpoch(e) == e # 0

\* line 119: epoch % save_every == 0 and epoch != 0
SaveDue(e) == e % save_every = 0 /\ e # 0

\* lines 55-57: the model is wrapped in nn.DataParallel, and so has the
\* attribute .module, only when more than one accelerator is visible
Wrapped(g) == g > 1

\* model.module (lines 70, 123): AttributeError on a model that is not wrapped
HasModule(m) == m.wrapped

\* model.module.state_dict(): the parameters under their unprefixed names
ModuleStateDict(m) == [prefix |-> "", tensors |-> m.params]

\* model.module.load_state_dict(sd)
LoadModuleStateDict(m, sd) == [m EXCEPT !.params = sd.tensors]

\* optimizer.state_dict() / optimizer.load_state_dict(sd)
OptimizerStateDict(o) == [state |-> o]
LoadOptimizerStateDict(sd) == sd.state

\* lines 121-126: the record torch.save writes
CheckpointRecord(e, m, o, l) ==
    [epoch                |-> e,
     model_state_dict     |-> ModuleStateDict(m),
     optimizer_state_dict |-> OptimizerStateDict(o),
     loss                 |-> l]

\* line 72: start_epoch = checkpoint['epoch'] + 1
ResumeEpoch(c) == c.epoch + 1

\* line 50: len(DataLoader(dataset, batch_size=16)), drop_last = False
LoaderLen(n) == (n + batch_size - 1) \div batch_size

\* lines 39-47: the dataset is the *.mid files under pretrain_data/dataset_train
\* (none when the directory does not exist)
TrainFiles == IF "train" \in subsets THEN trainChunks ELSE 0

(***************************************************************************)
(* utils.py: split_pretrain_data                                           *)
(***************************************************************************)
\* line 79: int(total_num_files * 0.8). The double 0.8 exceeds 4/5 by less
\* than 5e-17, so for every list that fits in memory the product truncates
\* to floor(8N/10).
NumFilesTrain(n) == (8 * n) \div 10
\* line 80: int(total_num_files * 0.1), likewise floor(N/10)
NumFilesValid(n) == n \div 10

\* line 82
PathsTrain(paths) == PySlice(paths, 0, NumFilesTrain(Len(paths)))
\* the validation slice with its end taken as a length
PathsValidShort(paths) ==
    PySlice(paths, NumFilesTrain(Len(paths)), NumFilesValid(Len(paths)))

\* lines 83-84
PathsValid(paths) ==
    PySlice(paths, NumFilesTrain(Len(paths)),
            NumFilesTrain(Len(paths)) + NumFilesValid(Len(paths)))
\* line 85
PathsTest(paths) ==
    PyFrom(paths, NumFilesTrain(Len(paths)) + NumFilesValid(Len(paths)))

\* lines 87-91: the subsets in the order they are handed over
SubsetNames == <<"train", "validation", "test">>

\* line 77: the glob's result, in the order the filesystem gives
GlobMidis(n) == [i \in 1..n |-> i]

(***************************************************************************)
(* One run of main()                                                       *)
(***************************************************************************)
FreshModel(g) == [wrapped |-> Wrapped(g), params |-> 0]

\* the state of a process that has just started: nothing of main() has run
RunStart(r, g, disk) ==
    [run |-> r, pc |-> "start", crashSite |-> "", gpus |-> g,
     midisAtStart |-> FALSE, events |-> <<>>, slices |-> <<>>,
     loaderLen |-> 0, model |-> FreshModel(g), optimizer |-> 0,
     start_epoch |-> 0, epoch |-> 0, batchIdx |-> 0, step |-> 0, loss |-> -1,
     executed |-> <<>>, saved |-> {}, ckptAtStart |-> disk,
     lastEpochCkpt |-> disk]

\* an uncaught exception ends the process; site names the exception and the
\* line of pretrain.py that raised it, or the external call that failed
ExternalSites == {"external:download", "external:extract", "external:split",
                  "external:load", "external:batch", "external:save"}
Raise(site) ==
    /\ pc' = "crashed"
    /\ crashSite' = site
    /\ externalFailure' = (externalFailure \/ site \in ExternalSites)

\* a checkpoint another training left at the resume path
ForeignCheckpoint(k) ==
    CheckpointRecord(k, [wrapped |-> TRUE, params |-> 100 + k], 100 + k, 0)
ForeignEpochs == 0..MaxForeignEpoch

InitDisk ==
    /\ midis = "absent"
    /\ corpus = 0
    /\ zip = FALSE
    /\ subsets = {}
    /\ trainChunks = 0
    /\ trainerWrote = {}
    /\ \/ ckpt = [e \in CkptSlots |-> NoFile]
       \/ \E k \in ForeignEpochs :
             ckpt = [e \in CkptSlots |->
                        IF e = ResumePath THEN <<ForeignCheckpoint(k)>> ELSE NoFile]

InitMain ==
    /\ InitDisk
    /\ \E g \in 0..MaxGpus :
         LET s == RunStart(1, g, ckpt)
         IN /\ run = s.run /\ pc = s.pc /\ crashSite = s.crashSite
            /\ externalFailure = FALSE
            /\ gpus = s.gpus /\ midisAtStart = s.midisAtStart
            /\ events = s.events /\ slices = s.slices
            /\ loaderLen = s.loaderLen /\ model = s.model
            /\ optimizer = s.optimizer /\ start_epoch = s.start_epoch
            /\ epoch = s.epoch /\ batchIdx = s.batchIdx /\ step = s.step
            /\ loss = s.loss /\ executed = s.executed /\ saved = s.saved
            /\ ckptAtStart = s.ckptAtStart
            /\ lastEpochCkpt = s.lastEpochCkpt

\* the guard that never skips
NeedsAcquisitionAlways == TRUE
\* the guard that also fires when the chunked train data is missing
NeedsAcquisitionOrNoData == midis = "absent" \/ "train" \notin subsets

\* line 32: not os.path.exists("midis")
NeedsAcquisition == midis = "absent"

\* lines 20-32
CheckMidis ==
    /\ pc = "start"
    /\ midisAtStart' = (midis # "absent")
    /\ pc' = IF NeedsAcquisition THEN "download" ELSE "build"
    /\ UNCHANGED <<nonMain, diskVars, run, crashSite, externalFailure, gpus,
                   events, slices, loaderLen, model, optimizer, start_epoch,
                   epoch, batchIdx, step, loss, executed, saved, ckptAtStart,
                   lastEpochCkpt>>

\* utils.py lines 59-60: gdown.download(download_url, output_zip)
Download ==
    /\ pc = "download"
    /\ events' = Append(events, "download")
    /\ \/ /\ zip' = TRUE
          /\ pc' = "extract"
          /\ UNCHANGED <<crashSite, externalFailure>>
       \/ /\ UNCHANGED zip
          /\ Raise("external:download")
    /\ UNCHANGED <<nonMain, midis, corpus, subsets, trainChunks, ckpt,
                   trainerWrote, run, gpus, midisAtStart, slices, loaderLen,
                   model, optimizer, start_epoch, epoch, batchIdx, step, loss,
                   executed, saved, ckptAtStart, lastEpochCkpt>>

\* the corpus sizes the archive may hold
CorpusSizes == {1, MaxFiles}

\* utils.py lines 62-64: ZipFile(output_zip).extractall(extracted_file_name)
Extract ==
    /\ pc = "extract"
    /\ events' = Append(events, "extract")
    /\ \/ /\ midis' = "complete"
          /\ \E n \in CorpusSizes : corpus' = n
          /\ pc' = "remove"
          /\ UNCHANGED <<crashSite, externalFailure>>
       \/ /\ midis' \in {"absent", "partial"}
          /\ UNCHANGED corpus
          /\ Raise("external:extract")
    /\ UNCHANGED <<nonMain, zip, subsets, trainChunks, ckpt, trainerWrote,
                   run, gpus, midisAtStart, slices, loaderLen, model,
                   optimizer, start_epoch, epoch, batchIdx, step, loss,
                   executed, saved, ckptAtStart, lastEpochCkpt>>

\* utils.py lines 66-70: os.remove(output_zip)
RemoveZip ==
    /\ pc = "remove"
    /\ events' = Append(events, "remove")
    /\ zip' = FALSE
    /\ pc' = "split"
    /\ UNCHANGED <<nonMain, midis, corpus, subsets, trainChunks, ckpt,
                   trainerWrote, run, crashSite, externalFailure, gpus,
                   midisAtStart, slices, loaderLen, model, optimizer,
                   start_epoch, epoch, batchIdx, step, loss, executed, saved,
                   ckptAtStart, lastEpochCkpt>>

\* utils.py lines 77-85
SplitBegin ==
    /\ pc = "split"
    /\ events' = Append(events, "split")
    /\ slices' = <<PathsTrain(GlobMidis(corpus)), PathsValid(GlobMidis(corpus)),
                   PathsTest(GlobMidis(corpus))>>
    /\ pc' = "subset"
    /\ UNCHANGED <<nonMain, diskVars, run, crashSite, externalFailure, gpus,
                   midisAtStart, loaderLen, model, optimizer, start_epoch,
                   epoch, batchIdx, step, loss, executed, saved, ckptAtStart,
                   lastEpochCkpt>>

\* subsets handed to split_files_for_training so far by this run
SubsetsDone == Cardinality({i \in 1..Len(events) : events[i] \in Range(SubsetNames)})

\* chunk files the external routine may leave for a subset of n source files
ChunkCounts(n) == IF n = 0 THEN {0} ELSE {0, batch_size, MaxChunks}

\* utils.py lines 87-99: one iteration, split_files_for_training on a subset
SplitSubset ==
    /\ pc = "subset"
    /\ LET i    == SubsetsDone + 1
           name == SubsetNames[i]
       IN /\ events' = Append(events, name)
          /\ \/ /\ subsets' = subsets \cup {name}
                /\ IF name = "train"
                     THEN \E c \in ChunkCounts(Len(slices[i])) : trainChunks' = c
                     ELSE UNCHANGED trainChunks
                /\ pc' = IF i = Len(SubsetNames) THEN "build" ELSE "subset"
                /\ UNCHANGED <<crashSite, externalFailure>>
             \/ /\ UNCHANGED <<subsets, trainChunks>>
                /\ Raise("external:split")
    /\ UNCHANGED <<nonMain, midis, corpus, zip, ckpt, trainerWrote, run, gpus,
                   midisAtStart, slices, loaderLen, model, optimizer,
                   start_epoch, epoch, batchIdx, step, loss, executed, saved,
                   ckptAtStart, lastEpochCkpt>>

\* lines 39-62
BuildDataset ==
    /\ pc = "build"
    /\ loaderLen' = LoaderLen(TrainFiles)
    /\ model' = FreshModel(gpus)
    /\ optimizer' = 0
    /\ pc' = "resume"
    /\ UNCHANGED <<nonMain, diskVars, run, crashSite, externalFailure, gpus,
                   midisAtStart, events, slices, start_epoch, epoch, batchIdx,
                   step, loss, executed, saved, ckptAtStart, lastEpochCkpt>>

\* lines 64-82
Resume ==
    /\ pc = "resume"
    /\ IF Exists(ckpt[ResumePath])
         THEN \/ /\ HasModule(model)
                 /\ model' = LoadModuleStateDict(model,
                                Content(ckpt[ResumePath]).model_state_dict)
                 /\ optimizer' = LoadOptimizerStateDict(
                                Content(ckpt[ResumePath]).optimizer_state_dict)
                 /\ start_epoch' = ResumeEpoch(Content(ckpt[ResumePath]))
                 /\ epoch' = start_epoch'
                 /\ pc' = "loop"
                 /\ UNCHANGED <<crashSite, externalFailure>>
              \/ /\ ~HasModule(model)
                 /\ Raise("AttributeError:70")
                 /\ UNCHANGED <<model, optimizer, start_epoch, epoch>>
              \/ /\ Raise("external:load")
                 /\ UNCHANGED <<model, optimizer, start_epoch, epoch>>
         ELSE /\ start_epoch' = 0
              /\ epoch' = 0
              /\ pc' = "loop"
              /\ UNCHANGED <<model, optimizer, crashSite, externalFailure>>
    /\ UNCHANGED <<nonMain, diskVars, run, gpus, midisAtStart, events, slices,
                   loaderLen, batchIdx, step, loss, executed, saved,
                   ckptAtStart, lastEpochCkpt>>

\* lines 83-84: the loop takes its next epoch
EpochBegin ==
    /\ pc = "loop"
    /\ epoch < num_epochs
    /\ executed' = Append(executed, epoch)
    /\ batchIdx' = 0
    /\ lastEpochCkpt' = ckpt
    /\ pc' = "batch"
    /\ UNCHANGED <<nonMain, diskVars, run, crashSite, externalFailure, gpus,
                   midisAtStart, events, slices, loaderLen, model, optimizer,
                   start_epoch, epoch, step, loss, saved, ckptAtStart>>

\* line 83: range(start_epoch, num_epochs) is exhausted; main returns
LoopExit ==
    /\ pc = "loop"
    /\ epoch >= num_epochs
    /\ pc' = "done"
    /\ UNCHANGED <<nonMain, diskVars, run, crashSite, externalFailure, gpus,
                   midisAtStart, events, slices, loaderLen, model, optimizer,
                   start_epoch, epoch, batchIdx, step, loss, executed, saved,
                   ckptAtStart, lastEpochCkpt>>

\* lines 85-112: one batch
TrainBatch ==
    /\ pc = "batch"
    /\ batchIdx < loaderLen
    /\ step' = step + 1
    /\ \/ /\ model' = [model EXCEPT !.params = @ + 1]
          /\ optimizer' = optimizer + 1
          /\ loss' = step'
          /\ batchIdx' = batchIdx + 1
          /\ UNCHANGED <<pc, crashSite, externalFailure>>
       \/ /\ Raise("external:batch")
          /\ UNCHANGED <<model, optimizer, loss, batchIdx>>
    /\ UNCHANGED <<nonMain, diskVars, run, gpus, midisAtStart, events, slices,
                   loaderLen, start_epoch, epoch, executed, saved,
                   ckptAtStart, lastEpochCkpt>>

\* lines 115-127: the epoch's log line and its checkpoint
EpochEnd ==
    /\ pc = "batch"
    /\ batchIdx = loaderLen
    /\ IF loaderLen = 0
         THEN \* line 115: total_loss / len(data_loader)
              /\ Raise("ZeroDivisionError:115")
              /\ UNCHANGED <<ckpt, trainerWrote, saved, epoch>>
         ELSE IF SaveDue(epoch)
         THEN \/ /\ HasModule(model)
                 /\ ckpt' = [ckpt EXCEPT ![CheckpointPath(epoch)] =
                               <<CheckpointRecord(epoch, model, optimizer, loss)>>]
                 /\ trainerWrote' = trainerWrote \cup {CheckpointPath(epoch)}
                 /\ saved' = saved \cup {epoch}
                 /\ epoch' = epoch + 1
                 /\ pc' = "loop"
                 /\ UNCHANGED <<crashSite, externalFailure>>
              \/ /\ ~HasModule(model)
                 /\ Raise("AttributeError:123")
                 /\ UNCHANGED <<ckpt, trainerWrote, saved, epoch>>
              \/ /\ Raise("external:save")
                 /\ UNCHANGED <<ckpt, trainerWrote, saved, epoch>>
         ELSE /\ epoch' = epoch + 1
              /\ pc' = "loop"
              /\ UNCHANGED <<ckpt, trainerWrote, saved, crashSite,
                             externalFailure>>
    /\ UNCHANGED <<nonMain, midis, corpus, zip, subsets, trainChunks, run,
                   gpus, midisAtStart, events, slices, loaderLen, model,
                   optimizer, start_epoch, batchIdx, step, loss, executed,
                   ckptAtStart, lastEpochCkpt>>

\* the process has ended; main() is started again on the same disk
Restart ==
    /\ pc \in {"done", "crashed"}
    /\ run < MaxRuns
    /\ \E g \in 0..MaxGpus :
         LET s == RunStart(run + 1, g, ckpt)
         IN /\ run' = s.run /\ pc' = s.pc /\ crashSite' = s.crashSite
            /\ UNCHANGED externalFailure
            /\ gpus' = s.gpus /\ midisAtStart' = s.midisAtStart
            /\ events' = s.events /\ slices' = s.slices
            /\ loaderLen' = s.loaderLen /\ model' = s.model
            /\ optimizer' = s.optimizer /\ start_epoch' = s.start_epoch
            /\ epoch' = s.epoch /\ batchIdx' = s.batchIdx /\ step' = s.step
            /\ loss' = s.loss /\ executed' = s.executed /\ saved' = s.saved
            /\ ckptAtStart' = s.ckptAtStart
            /\ lastEpochCkpt' = s.lastEpochCkpt
    /\ UNCHANGED <<nonMain, diskVars>>

Next ==
    \/ CheckMidis
    \/ Download
    \/ Extract
    \/ RemoveZip
    \/ SplitBegin
    \/ SplitSubset
    \/ BuildDataset
    \/ Resume
    \/ EpochBegin
    \/ LoopExit
    \/ TrainBatch
    \/ EpochEnd
    \/ Restart

IdleMain ==
    /\ midis = "absent" /\ corpus = 0 /\ zip = FALSE /\ subsets = {}
    /\ trainChunks = 0 /\ ckpt = <<>> /\ trainerWrote = {} /\ run = 0 /\ pc = "idle"
    /\ crashSite = "" /\ externalFailure = FALSE /\ gpus = 0
    /\ midisAtStart = FALSE /\ events = <<>>
    /\ slices = <<>> /\ loaderLen = 0 /\ model = <<>> /\ optimizer = 0
    /\ start_epoch = 0 /\ epoch = 0 /\ batchIdx = 0 /\ step = 0 /\ loss = -1
    /\ executed = <<>> /\ saved = {} /\ ckptAtStart = <<>>
    /\ lastEpochCkpt = <<>>
IdleSplit ==
    /\ sp_pc = "idle" /\ sp_paths = <<>> /\ sp_train = <<>> /\ sp_valid = <<>>
    /\ sp_test = <<>> /\ sp_calls = <<>>
IdleConvert ==
    /\ cv_pc = "idle" /\ cv_ids = <<>> /\ cv_tokens = <<>> /\ cv_tokfile = NoFile
    /\ cv_midifile = NoFile /\ cv_error = ""
    /\ cv_tokfile0 = NoFile /\ cv_midifile0 = NoFile
IdleBatch ==
    /\ bt_pc = "idle" /\ bt_input_ids = <<>> /\ bt_attention_mask = <<>>
    /\ bt_decoder_input = <<>> /\ bt_target = <<>> /\ bt_pad_mask = <<>>

Init == InitMain /\ IdleSplit /\ IdleConvert /\ IdleBatch
Spec == Init /\ [][Next]_vars

(***************************************************************************)
(* Properties of main()                                                    *)
(***************************************************************************)
\* the file at the resume path as this run found it
ResumeFile == ckptAtStart[ResumePath]

\* the run got past RESUME (lines 64-74)
PastResume ==
    \/ pc \in {"loop", "batch", "done"}
    \/ crashSite \in {"ZeroDivisionError:115", "AttributeError:123",
                      "external:batch", "external:save"}

\* the run executed RESUME and no external call failed in it
ResumeExecuted == PastResume \/ crashSite = "AttributeError:70"

\* the epochs the periodic rule names: 2, 4, ..., 18
DueEpochs == {e \in 0..(num_epochs - 1) : e % 2 = 0 /\ e # 0}

\* the download, extraction and archive deletion calls of this run, in order
AcquisitionCalls ==
    SelectSeq(events, LAMBDA x : x \in {"download", "extract", "remove"})

\* the acquisition step of this run has completed
AcquisitionDone ==
    /\ ~midisAtStart
    /\ \/ pc \in {"split", "subset", "build", "resume", "loop", "batch", "done"}
       \/ crashSite \notin {"", "external:download", "external:extract"}

IsPrefix(p, q) == Len(p) <= Len(q) /\ p = SubSeq(q, 1, Len(p))

\* C2: a run that finds at the resume path a checkpoint the trainer saved at
\* epoch e restores the saved parameters and optimizer state and sets
\* start_epoch to e + 1, so that the first epoch it executes is e + 1, in every
\* device configuration (no, one or several accelerators).
C2_RoundTrip ==
    (/\ ResumePath \in trainerWrote
     /\ ResumePath \notin saved
     /\ ResumeExecuted) =>
        /\ start_epoch = Content(ResumeFile).epoch + 1
        /\ executed = <<>> =>
              /\ model.params = Content(ResumeFile).model_state_dict.tensors
              /\ optimizer = Content(ResumeFile).optimizer_state_dict.state
        /\ executed # <<>> => executed[1] = Content(ResumeFile).epoch + 1

\* C3: in a run resumed from a checkpoint recorded at epoch k, 0 <= k < 19,
\* the one epoch k+1 that follows creates or overwrites a checkpoint file only
\* when (k+1) % 2 = 0 and k+1 # 0, and then only the file of epoch k+1; when
\* that condition is false the checkpoint files stay as they were.
C3_ResumeThenOneEpoch ==
    (/\ Exists(ResumeFile)
     /\ PastResume
     /\ Content(ResumeFile).epoch \in 0..(num_epochs - 2)
     /\ Len(executed) <= 1
     /\ epoch <= start_epoch + 1) =>
        LET k == Content(ResumeFile).epoch
        IN /\ executed # <<>> => executed[1] = k + 1
           /\ ckpt # ckptAtStart =>
                 /\ (k + 1) % 2 = 0 /\ (k + 1) # 0
                 /\ executed = <<k + 1>>
                 /\ \A e \in CkptSlots : e # k + 1 => ckpt[e] = ckptAtStart[e]
           /\ ~((k + 1) % 2 = 0 /\ (k + 1) # 0) => ckpt = ckptAtStart

\* a later run resumed from the trainer's own checkpoint of epoch 4 and ran
\* epoch 5, which left the checkpoint files alone
C3_Witness ==
    /\ run >= 2
    /\ ResumePath \in trainerWrote
    /\ Content(ResumeFile).epoch = 4
    /\ start_epoch = 5
    /\ executed = <<5>>
    /\ epoch = 6
    /\ pc = "loop"
    /\ ckpt = ckptAtStart

\* C4: a run that finds midis/ makes no download, extraction or archive
\* deletion call; a run that does not find it makes the calls download,
\* extraction, deletion in that order, each at most once, and once the step
\* has completed it has made each exactly once and midis.zip is not on disk.
C4_Acquisition ==
    /\ midisAtStart => events = <<>>
    /\ IsPrefix(AcquisitionCalls, <<"download", "extract", "remove">>)
    /\ AcquisitionDone =>
          /\ AcquisitionCalls = <<"download", "extract", "remove">>
          /\ zip = FALSE
          /\ midis = "complete"

\* a run after one whose extraction failed, leaving the archive behind, has
\* completed the acquisition
C4_Witness ==
    /\ run >= 2
    /\ ~midisAtStart
    /\ pc = "split"
    /\ events = <<"download", "extract", "remove">>
    /\ zip = FALSE

\* C7: at the end of every epoch e a run executes, a checkpoint record with
\* the four fields epoch, model_state_dict, optimizer_state_dict and loss, and
\* epoch = e, is written to decoder_epoch_<e>.pt if and only if e % 2 = 0 and
\* e # 0, in every device configuration; a fresh run that completes has
\* written the checkpoints of exactly the epochs 2, 4, ..., 18.
C7_CheckpointWhenDue ==
    /\ \A e \in Range(executed) :
          (e < epoch \/ (e = epoch /\ crashSite = "AttributeError:123")) =>
             /\ (e \in saved) <=> (e % 2 = 0 /\ e # 0)
             /\ e \in saved =>
                   /\ Exists(ckpt[e])
                   /\ DOMAIN Content(ckpt[e]) = CkptFields
                   /\ Content(ckpt[e]).epoch = e
    /\ (pc = "done" /\ start_epoch = 0) => saved = DueEpochs

\* C8: the loop executes the epochs start_epoch .. 19 once each, in increasing
\* order, each over every batch of the loader once, and as long as no external
\* call has failed nothing ends the run inside the loop before DONE; with
\* start_epoch >= 20 no epoch runs and no checkpoint is written; epoch 19
\* never writes a checkpoint.
C8_EpochLoop ==
    /\ executed = [i \in 1..Len(executed) |-> start_epoch + i - 1]
    /\ \A e \in Range(executed) : e < num_epochs
    /\ pc = "batch" => batchIdx <= loaderLen
    /\ pc \in {"loop", "done"} => step = Len(executed) * loaderLen
    /\ pc = "done" => Range(executed) = start_epoch..(num_epochs - 1)
    /\ (pc = "done" /\ start_epoch >= num_epochs) =>
          executed = <<>> /\ ckpt = ckptAtStart
    /\ (num_epochs - 1) \notin saved
    /\ ~externalFailure =>
          crashSite \notin {"ZeroDivisionError:115", "AttributeError:123"}

\* C9: once RESUME has executed, start_epoch is the epoch of the file
\* decoder_epoch_4.pt plus one if that file exists and 0 otherwise, whatever
\* other checkpoint files exist; a run that starts on the checkpoints of the
\* epochs 2..18 resumes at epoch 5, executes 5..19 and overwrites the files of
\* the epochs 6..18.
C9_ResumeFixedFile ==
    /\ ResumeExecuted =>
          start_epoch = IF Exists(ResumeFile)
                          THEN Content(ResumeFile).epoch + 1 ELSE 0
    /\ (/\ \A e \in DueEpochs :
              Exists(ckptAtStart[e]) /\ Content(ckptAtStart[e]).epoch = e
        /\ ResumeExecuted) =>
          /\ start_epoch = 5
          /\ pc = "done" =>
                /\ Range(executed) = 5..(num_epochs - 1)
                /\ saved = DueEpochs \ {2, 4}

\* the least number of batches of batch_size that hold n items
BatchesFor(n) ==
    CHOOSE k \in 0..n : batch_size * k >= n /\ (k = 0 \/ batch_size * (k - 1) < n)

PathLists(n) == {[i \in 1..n |-> i], [i \in 1..n |-> n + 1 - i]}

InitSplit ==
    /\ \E n \in 0..MaxFiles : \E l \in PathLists(n) : sp_paths = l
    /\ sp_pc = "begin"
    /\ sp_train = <<>> /\ sp_valid = <<>> /\ sp_test = <<>>
    /\ sp_calls = <<>>
    /\ IdleMain /\ IdleConvert /\ IdleBatch

\* lines 77-85
SpSlice ==
    /\ sp_pc = "begin"
    /\ sp_train' = PathsTrain(sp_paths)
    /\ sp_valid' = PathsValid(sp_paths)
    /\ sp_test' = PathsTest(sp_paths)
    /\ sp_pc' = "loop"
    /\ UNCHANGED <<sp_paths, sp_calls, mainVars, convVars, batchVars>>

\* lines 87-99: one iteration; split_files_for_training(files_paths=...,
\* save_dir=pretrain_data/dataset_<subset_name>) returns or raises
SpCall ==
    /\ sp_pc = "loop"
    /\ LET i     == Len(sp_calls) + 1
           files == <<sp_train, sp_valid, sp_test>>[i]
       IN /\ sp_calls' = Append(sp_calls,
                             [save_dir |-> SubsetNames[i], files_paths |-> files])
          /\ \/ sp_pc' = IF i = Len(SubsetNames) THEN "done" ELSE "loop"
             \/ sp_pc' = "raised"
    /\ UNCHANGED <<sp_paths, sp_train, sp_valid, sp_test, mainVars, convVars,
                   batchVars>>

NextSplit ==
    \/ SpSlice
    \/ SpCall

SpecSplit == InitSplit /\ [][NextSplit]_vars

\* floor(num * n / 10), stated without division
FloorTenths(num, n) ==
    CHOOSE k \in 0..n : 10 * k <= num * n /\ num * n < 10 * (k + 1)

\* C1: for a corpus of N paths the chunking routine is handed, in the order
\* train, validation, test, the first floor(0.8 N) paths, the next floor(0.1 N)
\* paths and the remaining N - floor(0.8 N) - floor(0.1 N) paths of the
\* unshuffled list; the three subsets are disjoint and together are the list.
C1_SplitSizes ==
    LET N  == Len(sp_paths)
        nt == FloorTenths(8, N)
        nv == FloorTenths(1, N)
        expected == <<SubSeq(sp_paths, 1, nt),
                      SubSeq(sp_paths, nt + 1, nt + nv),
                      SubSeq(sp_paths, nt + nv + 1, N)>>
    IN /\ Len(sp_calls) <= 3
       /\ \A i \in 1..Len(sp_calls) :
             /\ sp_calls[i].save_dir = <<"train", "validation", "test">>[i]
             /\ sp_calls[i].files_paths = expected[i]
             /\ Len(sp_calls[i].files_paths) = <<nt, nv, N - nt - nv>>[i]
       /\ \A i, j \in 1..Len(sp_calls) :
             i # j => Range(sp_calls[i].files_paths)
                        \cap Range(sp_calls[j].files_paths) = {}
       /\ sp_pc = "done" =>
             /\ Len(sp_calls) = 3
             /\ sp_calls[1].files_paths \o sp_calls[2].files_paths
                  \o sp_calls[3].files_paths = sp_paths

\* a corpus whose three subsets are all non-empty has been split completely
C1_Witness ==
    /\ sp_pc = "done"
    /\ Len(sp_paths) >= 13
    /\ Len(sp_paths) % 10 = 3
    /\ sp_paths[1] # 1
    /\ Len(sp_calls[2].files_paths) > 0

(***************************************************************************)
(* SpecConvert: utils.py, convert_to_midi(token_ids, tokenizer, dump_path) *)
(***************************************************************************)
\* tokenizer.vocab: token -> id, the ids being 0 .. VocabSize-1
TokenOfId(i) == <<"token", i>>
Vocab == [t \in {TokenOfId(i) : i \in 0..(VocabSize - 1)} |-> t[2]]

\* a reverse mapping that answers for every id
id_to_token_total == [i \in -1..VocabSize |-> TokenOfId(i)]

\* line 18: id_to_token = {v: k for k, v in tokenizer.vocab.items()}
id_to_token ==
    [i \in {Vocab[t] : t \in DOMAIN Vocab} |->
        CHOOSE t \in DOMAIN Vocab : Vocab[t] = i]

\* the token id sequences given: ids from -1 to VocabSize, both outside
IdSeqs == UNION {[1..n -> -1..VocabSize] : n \in 0..MaxIds}

\* what a file may hold before the call
OldFiles == {NoFile, <<"old">>}

InitConvert ==
    /\ cv_ids \in IdSeqs
    /\ cv_tokfile \in OldFiles
    /\ cv_midifile \in OldFiles
    /\ cv_tokfile0 = cv_tokfile
    /\ cv_midifile0 = cv_midifile
    /\ cv_pc = "begin"
    /\ cv_tokens = <<>>
    /\ cv_error = ""
    /\ IdleMain /\ IdleSplit /\ IdleBatch

\* lines 18-19: actual_tokens = [[id_to_token[i] for i in token_ids]]
CvLookup ==
    /\ cv_pc = "begin"
    /\ IF \A k \in 1..Len(cv_ids) : cv_ids[k] \in DOMAIN id_to_token
         THEN /\ cv_tokens' = <<[k \in 1..Len(cv_ids) |-> id_to_token[cv_ids[k]]]>>
              /\ cv_pc' = "write"
              /\ UNCHANGED cv_error
         ELSE /\ cv_error' = "KeyError"
              /\ cv_pc' = "raised"
              /\ UNCHANGED cv_tokens
    /\ UNCHANGED <<cv_ids, cv_tokfile, cv_midifile, cv_tokfile0, cv_midifile0,
                   mainVars, splitVars, batchVars>>

\* lines 21-23: generated_tokens.txt is rewritten, one token per line
CvWriteTokens ==
    /\ cv_pc = "write"
    /\ cv_tokfile' = <<cv_tokens[1]>>
    /\ cv_pc' = "decode"
    /\ UNCHANGED <<cv_ids, cv_tokens, cv_midifile, cv_error, cv_tokfile0,
                   cv_midifile0, mainVars, splitVars, batchVars>>

\* lines 25-26: tokenizer(actual_tokens).dump_midi(dump_path)
CvDump ==
    /\ cv_pc = "decode"
    /\ \/ /\ cv_midifile' = <<[midi_of |-> cv_tokens]>>
          /\ cv_pc' = "done"
          /\ UNCHANGED cv_error
       \/ /\ cv_error' = "external"
          /\ cv_pc' = "raised"
          /\ UNCHANGED cv_midifile
    /\ UNCHANGED <<cv_ids, cv_tokens, cv_tokfile, cv_tokfile0, cv_midifile0,
                   mainVars, splitVars, batchVars>>

NextConvert ==
    \/ CvLookup
    \/ CvWriteTokens
    \/ CvDump

SpecConvert == InitConvert /\ [][NextConvert]_vars

\* some given id is outside the vocabulary [0, vocab_size)
HasForeignId == \E k \in 1..Len(cv_ids) : cv_ids[k] \notin 0..(VocabSize - 1)

\* C5: when any of the given ids, at any position, is outside the vocabulary,
\* convert_to_midi ends with a KeyError, and neither generated_tokens.txt nor
\* the MIDI file at dump_path is created or changed.
C5_KeyErrorBeforeWrites ==
    HasForeignId =>
        /\ cv_pc \in {"begin", "raised"}
        /\ cv_pc = "raised" => cv_error = "KeyError"
        /\ cv_tokfile = cv_tokfile0
        /\ cv_midifile = cv_midifile0

\* the call failed on an id that follows valid ones, with both files present
C5_Witness ==
    /\ cv_pc = "raised"
    /\ cv_error = "KeyError"
    /\ Len(cv_ids) >= 2
    /\ cv_ids[1] \in 0..(VocabSize - 1)
    /\ cv_ids[Len(cv_ids)] = VocabSize
    /\ Exists(cv_tokfile0)
    /\ Exists(cv_midifile0)

(***************************************************************************)
(* SpecBatch: pretrain.py lines 88-100, the shift of one batch             *)
(***************************************************************************)
\* x[:, :-1]
DropLastColumn(x) == [b \in 1..Len(x) |-> PyDropLast(x[b])]
\* x[:, 1:]
DropFirstColumn(x) == [b \in 1..Len(x) |-> PyFrom(x[b], 1)]
\* line 95: attn_mask == 0, elementwise
IsZero(x) == [b \in 1..Len(x) |-> [i \in 1..Len(x[b]) |-> x[b][i] = 0]]

\* line 91
DecoderInput(input_ids) == DropLastColumn(input_ids)
\* line 92
Target(input_ids) == DropFirstColumn(input_ids)
\* the padding mask shifted like the target
TgtKeyPaddingMaskOfTarget(attention_mask) ==
    IsZero(DropFirstColumn(attention_mask))

\* lines 93-95
TgtKeyPaddingMask(attention_mask) == IsZero(DropLastColumn(attention_mask))

\* a batch of shape (nb, len): token ids that differ from position to
\* position, and any 0/1 attention mask
BatchIds(nb, len, base) ==
    [b \in 1..nb |-> [i \in 1..len |-> base + (b - 1) * len + i]]
Masks(nb, len) == [1..nb -> [1..len -> {0, 1}]]

InitBatch ==
    /\ \E nb \in 1..MaxBatch, len \in 1..MaxSeqLen :
          /\ \E base \in {0, 1} : bt_input_ids = BatchIds(nb, len, base)
          /\ bt_attention_mask \in Masks(nb, len)
    /\ bt_pc = "batch"
    /\ bt_decoder_input = <<>> /\ bt_target = <<>> /\ bt_pad_mask = <<>>
    /\ IdleMain /\ IdleSplit /\ IdleConvert

\* lines 88-95
BtShift ==
    /\ bt_pc = "batch"
    /\ bt_decoder_input' = DecoderInput(bt_input_ids)
    /\ bt_target' = Target(bt_input_ids)
    /\ bt_pad_mask' = TgtKeyPaddingMask(bt_attention_mask)
    /\ bt_pc' = "shifted"
    /\ UNCHANGED <<bt_input_ids, bt_attention_mask, mainVars, splitVars,
                   convVars>>

\* lines 97-100: model(decoder_input, tgt_key_padding_mask=...) returns or raises
BtForward ==
    /\ bt_pc = "shifted"
    /\ bt_pc' \in {"forwarded", "raised"}
    /\ UNCHANGED <<bt_input_ids, bt_attention_mask, bt_decoder_input,
                   bt_target, bt_pad_mask, mainVars, splitVars, convVars>>

NextBatch ==
    \/ BtShift
    \/ BtForward

SpecBatch == InitBatch /\ [][NextBatch]_vars

AllOnes(mask) == \A b \in 1..Len(mask) : \A i \in 1..Len(mask[b]) : mask[b][i] = 1

\* C6: for a batch of shape (batch_size, seq_len) the padding mask passed to
\* the model has shape (batch_size, seq_len - 1) and is true at (b, i) exactly
\* when attention_mask[b][i] is 0, so it is false everywhere for a mask of
\* ones; the decoder input is the batch without its last token and the target
\* the batch without its first (target[b][i] = input_ids[b][i+1]).
C6_ShiftedMask ==
    bt_pc \in {"shifted", "forwarded", "raised"} =>
        LET nb  == Len(bt_input_ids)
            len == Len(bt_input_ids[1])
        IN /\ Len(bt_pad_mask) = nb
           /\ Len(bt_decoder_input) = nb
           /\ Len(bt_target) = nb
           /\ \A b \in 1..nb :
                 /\ Len(bt_pad_mask[b]) = len - 1
                 /\ Len(bt_decoder_input[b]) = len - 1
                 /\ Len(bt_target[b]) = len - 1
                 /\ \A i \in 1..(len - 1) :
                       /\ bt_pad_mask[b][i] = (bt_attention_mask[b][i] = 0)
                       /\ bt_decoder_input[b][i] = bt_input_ids[b][i]
                       /\ bt_target[b][i] = bt_input_ids[b][i + 1]
           /\ AllOnes(bt_attention_mask) =>
                 \A b \in 1..nb : \A i \in 1..(len - 1) : bt_pad_mask[b][i] = FALSE

\* a batch without padding, of more than one row and column, has been shifted
C6_Witness ==
    /\ bt_pc = "forwarded"
    /\ Len(bt_input_ids) >= 2
    /\ Len(bt_input_ids[1]) >= 3
    /\ AllOnes(bt_attention_mask)
    /\ bt_pad_mask = [b \in 1..Len(bt_input_ids) |->
                         [i \in 1..(Len(bt_input_ids[1]) - 1) |-> FALSE]]

====
